---- MODULE Spec2Model ----
(***************************************************************************)
(* A model of pullback_alerts.py: the pullback calculator, the trade       *)
(* suggester, the per-symbol scanner (process_symbol) and the batch run    *)
(* (main) that scans the universe, builds the report table and mails it.   *)
(*                                                                         *)
(* Units.  Python floats are modelled by exact integer arithmetic:         *)
(*   prices            integer mills (1/1000 dollar)  (100.00  -> 100000)  *)
(*   "Current Price"   cents in a row                 (100.00  -> 10000)   *)
(*   thresholds        thousandths                    (0.005   -> 5)       *)
(*   recovery, factors hundredths                     (0.40 -> 40, 1.05 -> 105) *)
(*   strike            tenths of a dollar             (105.0   -> 1050)    *)
(*   payoff            1/100000 dollar before rounding, cents in a row     *)
(*   "Pullback %"      hundredths of a percent        (23.08   -> 2308)    *)
(* A pullback fraction is a pair <<n, d>> standing for the IEEE quotient   *)
(* n/d: d > 0 is the finite value n/d, <<0,0>> is NaN, <<n,0>> with n > 0  *)
(* is +inf and with n < 0 is -inf.  The price values of the model are      *)
(* chosen so that no rounding in the program falls on a tie (NoTie), where *)
(* the float result would depend on the binary representation.            *)
(***************************************************************************)
EXTENDS Integers, Sequences, FiniteSets, TLC

VARIABLES
    pc,             \* where main is: "spy", "top", "constituents", "sp500",
                    \* "send", "done", or "crashed" (an exception left main)
    idx,            \* the position in top_stocks of the next symbol to scan
    page,           \* what the constituent page fetch produced
    sp500_symbols,  \* the symbols of the S&P 500 loop not yet visited
    alerts,         \* main's list of alert records
    df,             \* the report table handed to send_email_report
    feed,           \* what yf.download returned, per symbol fetched so far
    env,            \* the sender settings as read at lines 221-222
    out,            \* what the operator sees: printed lines and mail sent
    err,            \* the exception that ended the run, "" if none
    scan,           \* one call of process_symbol (specification SpecScan)
    sk              \* calls of suggest_leap_strike (specification SpecStrike)

vars == <<pc, idx, page, sp500_symbols, alerts, df, feed, env, out, err, scan, sk>>

mainVars == <<pc, idx, page, sp500_symbols, alerts, df, feed, env, out, err>>

----------------------------------------------------------------------------
(* Strings.  Python compares and rewrites strings by code point; Chars     *)
(* gives the code points of every string the model uses.                   *)

Chars ==
    "AAPL" :> <<65, 65, 80, 76>> @@
    "MSFT" :> <<77, 83, 70, 84>> @@
    "AMZN" :> <<65, 77, 90, 78>> @@
    "TSLA" :> <<84, 83, 76, 65>> @@
    "GOOGL" :> <<71, 79, 79, 71, 76>> @@
    "NVDA" :> <<78, 86, 68, 65>> @@
    "META" :> <<77, 69, 84, 65>> @@
    "BRK-B" :> <<66, 82, 75, 45, 66>> @@
    "UNH" :> <<85, 78, 72>> @@
    "V" :> <<86>> @@
    "JNJ" :> <<74, 78, 74>> @@
    "KO" :> <<75, 79>> @@
    "PEP" :> <<80, 69, 80>> @@
    "PG" :> <<80, 71>> @@
    "DIS" :> <<68, 73, 83>> @@
    "SPY" :> <<83, 80, 89>> @@
    "BRK.B" :> <<66, 82, 75, 46, 66>> @@
    "ZTS" :> <<90, 84, 83>> @@
    "AMD" :> <<65, 77, 68>> @@
    "Top 15" :> <<84, 111, 112, 32, 49, 53>> @@
    "S&P 500" :> <<83, 38, 80, 32, 53, 48, 48>> @@
    "-" :> <<45>>

\* a < b on Python strings: lexicographic on code points, a proper prefix first
RECURSIVE SeqLess(_, _)
SeqLess(a, b) ==
    IF b = <<>> THEN FALSE
    ELSE IF a = <<>> THEN TRUE
    ELSE IF a[1] # b[1] THEN a[1] < b[1]
    ELSE SeqLess(Tail(a), Tail(b))

StrLess(a, b) == SeqLess(Chars[a], Chars[b])

\* s.replace(".", "-")
StrReplaceDot(s) ==
    LET c == Chars[s]
        r == [k \in 1..Len(c) |-> IF c[k] = 46 THEN 45 ELSE c[k]]
    IN  CHOOSE t \in DOMAIN Chars : Chars[t] = r

----------------------------------------------------------------------------
(* CONFIGURATION (lines 14-42) *)

top_stocks ==
    << "AAPL", "MSFT", "AMZN", "TSLA", "GOOGL", "NVDA", "META",
       "BRK-B", "UNH", "V", "JNJ", "KO", "PEP", "PG", "DIS" >>

spy_symbol == "SPY"

\* lookback period -> threshold, thousandths
pullback_thresholds_stocks == (1 :> 5) @@ (7 :> 10) @@ (15 :> 120) @@ (30 :> 130)

pullback_thresholds_spy == (1 :> 25) @@ (7 :> 51) @@ (15 :> 100) @@ (30 :> 150)

\* lookback period -> months
leap_expiry_months_stocks == (1 :> 12) @@ (7 :> 12) @@ (15 :> 18) @@ (30 :> 24)

leap_expiry_months_spy == (1 :> 12) @@ (7 :> 12) @@ (15 :> 18) @@ (30 :> 24)

\* lookback period -> recovery, hundredths
recovery_map_stocks == (1 :> 10) @@ (7 :> 20) @@ (15 :> 40) @@ (30 :> 60)

recovery_map_spy == (1 :> 5) @@ (7 :> 10) @@ (15 :> 20) @@ (30 :> 30)

\* thresholds.items(): a dict iterates in insertion order
PeriodOrder == <<1, 7, 15, 30>>

----------------------------------------------------------------------------
(* Float arithmetic on the model's exact values *)

IsNaN(f) == f[1] = 0 /\ f[2] = 0

\* the float quotient n / d of two integers (IEEE: x/0 is an infinity, 0/0 is NaN)
Quot(n, d) ==
    IF d > 0 THEN <<n, d>>
    ELSE IF d < 0 THEN <<0 - n, 0 - d>>
    ELSE IF n > 0 THEN <<1, 0>>
    ELSE IF n < 0 THEN <<0 - 1, 0>>
    ELSE <<0, 0>>

\* f < m/1000 ; every comparison with NaN is false
FracLess(f, m) ==
    IF f[2] > 0 THEN f[1] * 1000 < m * f[2]
    ELSE f[1] < 0

\* f >= m/1000
FracGeq(f, m) ==
    IF f[2] > 0 THEN f[1] * 1000 >= m * f[2]
    ELSE f[1] > 0

\* round(n / d) to an integer, d > 0, ties to even (Python's round)
RoundDiv(n, d) ==
    LET q == n \div d
        r == n % d
    IN  IF 2 * r < d THEN q
        ELSE IF 2 * r > d THEN q + 1
        ELSE IF q % 2 = 0 THEN q ELSE q + 1

Max2(a, b) == IF a >= b THEN a ELSE b

----------------------------------------------------------------------------
(* DATA HELPERS (lines 63-82) *)

\* data["Close"].rolling(window=period, min_periods=1).max() at bar k
RollingMax(close, period, k) ==
    LET lo == Max2(1, k - period + 1)
    IN  CHOOSE m \in {close[j] : j \in lo..k} :
            \A j \in lo..k : close[j] <= m

\* calculate_pullback(data, period): the whole series of fractions
calculate_pullback(close, period) ==
    IF period = 1
    THEN [k \in 1..Len(close) |->
            IF k = 1 THEN <<0, 0>>              \* shift(1) leaves NaN at bar 1
            ELSE Quot(close[k - 1] - close[k], close[k - 1])]
    ELSE [k \in 1..Len(close) |->
            LET max_price == RollingMax(close, period, k)
            IN  Quot(max_price - close[k], max_price)]

\* the first equity regime given the factor of the third
suggest_leap_strike_flat(price, pullback, is_spy) ==
    IF is_spy
    THEN RoundDiv(price * (IF FracGeq(pullback, 50) THEN 102 ELSE 100), 10000)
    ELSE IF FracLess(pullback, 100) THEN RoundDiv(price * 110, 10000)
    ELSE IF FracLess(pullback, 200) THEN RoundDiv(price * 105, 10000)
    ELSE RoundDiv(price * 110, 10000)

\* suggest_leap_strike(price, pullback, is_spy): tenths of a dollar
suggest_leap_strike(price, pullback, is_spy) ==
    IF is_spy
    THEN RoundDiv(price * (IF FracGeq(pullback, 50) THEN 102 ELSE 100), 10000)
    ELSE IF FracLess(pullback, 100) THEN RoundDiv(price * 100, 10000)
    ELSE IF FracLess(pullback, 200) THEN RoundDiv(price * 105, 10000)
    ELSE RoundDiv(price * 110, 10000)

suggest_expiry(period, is_spy) ==
    (IF is_spy THEN leap_expiry_months_spy ELSE leap_expiry_months_stocks)[period]

\* the payoff with the recovery left out of the recovered price
estimate_payoff_norecovery(price, strike, recovery) ==
    Max2(0, price * 100 - strike * 10000)

\* estimate_payoff(price, strike, recovery): 1/100000 dollar
estimate_payoff(price, strike, recovery) ==
    Max2(0, price * (100 + recovery) - strike * 10000)

\* round(pullback * 100, 2): hundredths of a percent; an infinity stays one
PullbackPct(f) ==
    IF f[2] > 0 THEN RoundDiv(f[1] * 10000, f[2])
    ELSE IF f[1] > 0 THEN "inf" ELSE "-inf"

----------------------------------------------------------------------------
(* The price history provider.  yf.download either raises, returns None,   *)
(* or returns a frame of bars; a bar whose Close is missing has na = TRUE. *)

Bar(c) == [na |-> FALSE, Close |-> c]

NaBar == [na |-> TRUE, Close |-> 0]

Raises == [kind |-> "raise", bars |-> <<>>]

ReturnsNone == [kind |-> "none", bars |-> <<>>]

Frame(bars) == [kind |-> "frame", bars |-> bars]

\* data.dropna(inplace=True); data["Close"]
DropNa(bars) ==
    LET kept == SelectSeq(bars, LAMBDA b : ~b.na)
    IN  [k \in 1..Len(kept) |-> kept[k].Close]

----------------------------------------------------------------------------
(* CORE SCAN (lines 141-180) *)

\* line 161 without the NaN test
SkipPeriod_nonan(pullback, threshold) == FracLess(pullback, threshold)

\* line 161: np.isnan(pullback) or pullback < threshold
SkipPeriod(pullback, threshold) ==
    IsNaN(pullback) \/ FracLess(pullback, threshold)

\* lines 164-178: the alert record of one period
AlertRow(symbol, group, is_spy, price, pullback, period) ==
    LET strike   == suggest_leap_strike(price, pullback, is_spy)
        expiry   == suggest_expiry(period, is_spy)
        recovery == (IF is_spy THEN recovery_map_spy ELSE recovery_map_stocks)[period]
        payoff   == estimate_payoff(price, strike, recovery)
    IN  [ Group        |-> group,
          Symbol       |-> symbol,
          CurrentPrice |-> RoundDiv(price, 10),
          PullbackPct  |-> PullbackPct(pullback),
          Period       |-> period,
          Strike       |-> strike,
          Expiry       |-> expiry,
          Payoff       |-> RoundDiv(payoff, 1000) ]

\* lines 154-178: the loop over thresholds.items(), in the order given
RECURSIVE ScanPeriods(_, _, _, _, _, _)
ScanPeriods(close, order, symbol, thresholds, group, is_spy) ==
    IF order = <<>> THEN <<>>
    ELSE
        LET period          == Head(order)
            threshold       == thresholds[period]
            pullback_series == calculate_pullback(close, period)
            rest == ScanPeriods(close, Tail(order), symbol, thresholds, group, is_spy)
        IN  IF Len(pullback_series) = 0 THEN rest
            ELSE LET pullback == pullback_series[Len(pullback_series)]
                     price    == close[Len(close)]
                 IN  IF SkipPeriod(pullback, threshold) THEN rest
                     ELSE <<AlertRow(symbol, group, is_spy, price, pullback, period)>>
                          \o rest

\* process_symbol with the iteration order of thresholds.items() made explicit.
\* raised is TRUE when an exception leaves the function: the try block covers
\* yf.download only, and data.dropna on None raises AttributeError outside it.
ProcessSymbolIn(order, fetch, symbol, thresholds, group, is_spy) ==
    IF fetch.kind = "raise" THEN [raised |-> FALSE, alerts |-> <<>>]
    ELSE IF fetch.kind = "none" THEN [raised |-> TRUE, alerts |-> <<>>]
    ELSE LET close == DropNa(fetch.bars)
         IN  IF Len(close) = 0 THEN [raised |-> FALSE, alerts |-> <<>>]
             ELSE [raised |-> FALSE,
                   alerts |-> ScanPeriods(close, order, symbol, thresholds,
                                          group, is_spy)]

process_symbol(fetch, symbol, thresholds, group, is_spy) ==
    ProcessSymbolIn(PeriodOrder, fetch, symbol, thresholds, group, is_spy)

----------------------------------------------------------------------------
(* Input domains *)

MaxBars == 3

\* no rounding of a price or of a strike falls on a tie for this price
NoTie(price) ==
    /\ price % 10 # 5
    /\ \A m \in {100, 102, 105, 110} : (price * m) % 10000 # 5000

\* close prices: 130.00 -> 128.70 is a drop of 0.010 and 100.00 -> 90.00 one of
\* 0.10 (on a threshold), 130.00 -> 100.00 is the drop 0.2308
PriceVals == {p \in {0, 90000, 100000, 100004, 128700, 130000} : NoTie(p)}

BarVals == {Bar(c) : c \in PriceVals} \cup {NaBar}

RECURSIVE SeqsUpTo(_, _)
SeqsUpTo(S, n) ==
    IF n = 0 THEN {<<>>}
    ELSE LET shorter == SeqsUpTo(S, n - 1)
         IN  shorter \cup {Append(q, x) : q \in {t \in shorter : Len(t) = n - 1}, x \in S}

\* a peak, then gap flat bars, then the latest bar
PeakSeries(peak, gap, flat, last) ==
    [k \in 1..(gap + 2) |->
        IF k = 1 THEN Bar(peak) ELSE IF k = gap + 2 THEN Bar(last) ELSE Bar(flat)]

\* the peak is the last bar inside, or the first bar outside, each rolling window
GapLens == UNION {{p - 2, p - 1} : p \in {7, 15, 30}}

ScanFetches ==
    {Raises, ReturnsNone}
    \cup {Frame(b) : b \in SeqsUpTo(BarVals, MaxBars)}
    \cup {Frame(PeakSeries(peak, gap, flat, last)) :
            peak \in {130000}, gap \in GapLens,
            flat \in {0, 90000, 100000}, last \in PriceVals}

----------------------------------------------------------------------------
(* Specification SpecScan: process_symbol applied to every input history *)

ScanIdle == [stage |-> "idle"]

ScanInit ==
    \E fetch \in ScanFetches, is_spy \in BOOLEAN :
        scan = [ stage  |-> "call",
                 fetch  |-> fetch,
                 symbol |-> IF is_spy THEN spy_symbol ELSE "AAPL",
                 group  |-> IF is_spy THEN "SPY" ELSE "Top 15",
                 is_spy |-> is_spy,
                 raised |-> FALSE,
                 alerts |-> <<>> ]

ScanCall ==
    /\ scan.stage = "call"
    /\ LET r == process_symbol(scan.fetch, scan.symbol,
                               IF scan.is_spy THEN pullback_thresholds_spy
                                              ELSE pullback_thresholds_stocks,
                               scan.group, scan.is_spy)
       IN  scan' = [scan EXCEPT !.stage = "returned",
                                !.raised = r.raised,
                                !.alerts = r.alerts]

----------------------------------------------------------------------------
(* The constituent page provider and get_sp500_symbols (lines 48-61).      *)
(* pd.read_html raises ImportError when lxml is missing, ValueError when   *)
(* the page holds no table, and urllib's URLError (an OSError) when the    *)
(* request fails; df["Symbol"] raises KeyError when the column is missing. *)

PageUnfetched == [kind |-> "unfetched", Symbol |-> <<>>]

PageOk(column) == [kind |-> "ok", Symbol |-> column]

PageFails(e) == [kind |-> e, Symbol |-> <<>>]

PageFailures == {"ImportError", "ValueError", "URLError", "KeyError"}

\* Symbol columns the page may carry: an empty one, one of curated and proxy
\* symbols only (BRK.B in its class-separator form), and one that also lists
\* two other constituents, one of them twice
SamplePages ==
    { <<>>,
      <<"AAPL", "BRK.B", "SPY">>,
      <<"AMD", "BRK.B", "ZTS", "SPY", "AMD">> }

PageOutcomes ==
    {PageOk(c) : c \in SamplePages} \cup {PageFails(e) : e \in PageFailures}

\* get_sp500_symbols(): raised names the exception that leaves the function
get_sp500_symbols(p) ==
    IF p.kind = "ok"
    THEN [raised |-> "", warned |-> FALSE,
          symbols |-> [k \in 1..Len(p.Symbol) |-> StrReplaceDot(p.Symbol[k])]]
    ELSE IF p.kind \in {"ImportError", "ValueError"}
    THEN [raised |-> "", warned |-> TRUE, symbols |-> <<>>]
    ELSE [raised |-> p.kind, warned |-> FALSE, symbols |-> <<>>]

SeqToSet(q) == {q[k] : k \in 1..Len(q)}

\* line 197 without the proxy symbol taken out
Sp500Remainder_keepspy(symbols) == SeqToSet(symbols) \ SeqToSet(top_stocks)

\* line 197: set(get_sp500_symbols()) - set(top_stocks) - {spy_symbol}
Sp500Remainder(symbols) ==
    (SeqToSet(symbols) \ SeqToSet(top_stocks)) \ {spy_symbol}

----------------------------------------------------------------------------
(* The report table (lines 202-216) *)

Placeholder ==
    [ Group        |-> "-",
      Symbol       |-> "-",
      CurrentPrice |-> "-",
      PullbackPct  |-> "-",
      Period       |-> "-",
      Strike       |-> "-",
      Expiry       |-> "-",
      Payoff       |-> "No alerts today" ]

\* lines 202-213 without the substitution
FrameRows_asis(rows) == rows

\* lines 202-213: pd.DataFrame(alerts), or the placeholder when it is empty
FrameRows(rows) == IF rows = <<>> THEN <<Placeholder>> ELSE rows

\* the key columns taken in the order Symbol, Group, Period
RowKeyLess_symbolfirst(a, b) ==
    \/ StrLess(a.Symbol, b.Symbol)
    \/ /\ a.Symbol = b.Symbol
       /\ \/ StrLess(a.Group, b.Group)
          \/ a.Group = b.Group /\ a.Period < b.Period

\* the sort key of line 215: ["Period (days)", "Group", "Symbol"]
RowKeyLess(a, b) ==
    \/ a.Period < b.Period
    \/ /\ a.Period = b.Period
       /\ \/ StrLess(a.Group, b.Group)
          \/ a.Group = b.Group /\ StrLess(a.Symbol, b.Symbol)

\* the orders of the rows in todo that a sort by RowKeyLess may produce:
\* rows with equal keys may come out in either order
RECURSIVE SortedOrders(_, _)
SortedOrders(rows, todo) ==
    IF todo = {} THEN {<<>>}
    ELSE UNION { {<<k>> \o t : t \in SortedOrders(rows, todo \ {k})} :
                 k \in {k \in todo :
                          \A j \in todo \ {k} : ~RowKeyLess(rows[j], rows[k])} }

\* line 215 left out
sort_values_none(rows) == {rows}

\* df.sort_values([...]); df.reset_index(drop=True): the tables it may produce
sort_values(rows) ==
    { [k \in 1..Len(rows) |-> rows[o[k]]] : o \in SortedOrders(rows, 1..Len(rows)) }

----------------------------------------------------------------------------
(* EMAIL (lines 88-135) and the environment (lines 221-223) *)

\* whether EMAIL_USER and EMAIL_PASS were set when main read them
EnvUnread == [read |-> FALSE, EMAIL_USER |-> FALSE, EMAIL_PASS |-> FALSE]

\* lines 89-90: the receiver is RECEIVER_EMAIL and defaults to the sender
MailLine(receiver) ==
    IF receiver THEN "mail to RECEIVER_EMAIL" ELSE "mail to EMAIL_USER"

\* send_email_report: "" when the mail went out, else the exception raised.
\* There is no test of sender or password: with either one None the message
\* is still built and server.login is called with None, which raises
\* (SMTPAuthenticationError when the server rejects the credentials, or
\* AttributeError when smtplib encodes None for AUTH LOGIN); with both set,
\* the transport may still fail.
send_email_report(e, transport) ==
    IF ~(e.EMAIL_USER /\ e.EMAIL_PASS) THEN "login error"
    ELSE IF transport = "fail" THEN "SMTPException"
    ELSE ""

----------------------------------------------------------------------------
(* MAIN (lines 186-226) *)

\* an uneventful history: one bar, no pullback
Quiet == Frame(<<Bar(100000)>>)

\* the answers of the provider that the run explores: an exception, None, a
\* frame with no usable bar, a drop of 0.2308 in one day, a quiet history
MainFetches ==
    { Raises, ReturnsNone, Frame(<<NaBar>>),
      Frame(<<Bar(130000), Bar(100000)>>), Quiet }

\* the symbols whose history varies from run to run: the proxy, curated
\* symbols (BRK-B is the one a constituent page spells BRK.B) and two other
\* constituents; every other symbol has the quiet history
LiveSymbols == {"SPY", "AAPL", "BRK-B", "V", "AMD", "ZTS"}

\* the provider's answers for symbol s: the same answer when asked again
Fetches(s) ==
    IF s \in DOMAIN feed THEN {feed[s]}
    ELSE IF s \in LiveSymbols THEN MainFetches
    ELSE {Quiet}

MainInit ==
    /\ pc = "spy"
    /\ idx = 1
    /\ page = PageUnfetched
    /\ sp500_symbols = {}
    /\ alerts = <<>>
    /\ df = <<>>
    /\ feed = <<>>
    /\ env = EnvUnread
    /\ out = <<>>
    /\ err = ""

\* one call alerts += process_symbol(...) of main, going on to pc value next
Scan(s, thresholds, group, is_spy, next) ==
    \E fetch \in Fetches(s) :
        LET r == process_symbol(fetch, s, thresholds, group, is_spy)
        IN  /\ feed' = (s :> fetch) @@ feed
            /\ IF r.raised
               THEN /\ pc' = "crashed"
                    /\ err' = "AttributeError"
                    /\ alerts' = alerts
               ELSE /\ pc' = next
                    /\ err' = err
                    /\ alerts' = alerts \o r.alerts

\* line 190
ScanSpy ==
    /\ pc = "spy"
    /\ Scan(spy_symbol, pullback_thresholds_spy, "SPY", TRUE, "top")
    /\ UNCHANGED <<idx, page, sp500_symbols, df, env, out, scan, sk>>

\* lines 193-194, one iteration
ScanTop ==
    /\ pc = "top"
    /\ idx <= Len(top_stocks)
    /\ Scan(top_stocks[idx], pullback_thresholds_stocks, "Top 15", FALSE,
            IF idx = Len(top_stocks) THEN "constituents" ELSE "top")
    /\ idx' = idx + 1
    /\ UNCHANGED <<page, sp500_symbols, df, env, out, scan, sk>>

\* line 197
FetchConstituents ==
    /\ pc = "constituents"
    /\ \E p \in PageOutcomes :
        LET r == get_sp500_symbols(p)
        IN  /\ page' = p
            /\ IF r.raised # ""
               THEN /\ pc' = "crashed"
                    /\ err' = r.raised
                    /\ UNCHANGED <<sp500_symbols, out>>
               ELSE /\ pc' = "sp500"
                    /\ err' = err
                    /\ sp500_symbols' = Sp500Remainder(r.symbols)
                    /\ out' = IF r.warned
                              THEN Append(out, "Could not fetch S&P 500 list")
                              ELSE out
    /\ UNCHANGED <<idx, alerts, df, feed, env, scan, sk>>

\* lines 198-199, one iteration: a set iterates in an order of its own
ScanSp500 ==
    /\ pc = "sp500"
    /\ \E s \in sp500_symbols :
        /\ Scan(s, pullback_thresholds_stocks, "S&P 500", FALSE, "sp500")
        /\ sp500_symbols' = sp500_symbols \ {s}
    /\ UNCHANGED <<idx, page, df, env, out, scan, sk>>

\* lines 202-216, once the loop is over
BuildFrame ==
    /\ pc = "sp500"
    /\ sp500_symbols = {}
    /\ df' \in sort_values(FrameRows(alerts))
    /\ pc' = "send"
    /\ UNCHANGED <<idx, page, sp500_symbols, alerts, feed, env, out, err, scan, sk>>

\* lines 219-226
SendEmail ==
    /\ pc = "send"
    /\ \E user \in BOOLEAN, pass \in BOOLEAN, receiver \in BOOLEAN,
          transport \in {"ok", "fail"} :
        LET e == [read |-> TRUE, EMAIL_USER |-> user, EMAIL_PASS |-> pass]
            raised == send_email_report(e, transport)
        IN  /\ env' = e
            /\ IF raised # ""
               THEN /\ pc' = "crashed"
                    /\ err' = raised
                    /\ out' = out
               ELSE /\ pc' = "done"
                    /\ err' = err
                    /\ out' = out \o <<MailLine(receiver), "Daily pullback scan completed">>
    /\ UNCHANGED <<idx, page, sp500_symbols, alerts, df, feed, scan, sk>>

----------------------------------------------------------------------------
(* Specification SpecStrike: suggest_leap_strike at one price as the       *)
(* pullback deepens                                                        *)

StrikeIdle == [stage |-> "idle"]

\* pullback fractions on and around every breakpoint of the step functions
PullbackVals ==
    {<<n, 1000>> : n \in {0 - 50, 0, 49, 50, 51, 99, 100, 101, 199, 200, 201, 300}}

\* a < b on finite fractions
FracLT(a, b) == a[1] * b[2] < b[1] * a[2]

StrikeInit ==
    \E price \in PriceVals, is_spy \in BOOLEAN, pullback \in PullbackVals :
        sk = [ stage         |-> "first",
               price         |-> price,
               is_spy        |-> is_spy,
               pullback      |-> pullback,
               strike        |-> suggest_leap_strike(price, pullback, is_spy),
               prev_pullback |-> pullback,
               prev_strike   |-> suggest_leap_strike(price, pullback, is_spy) ]

DeeperPullback ==
    /\ sk.stage # "idle"
    /\ \E pullback \in PullbackVals :
        /\ FracLT(sk.pullback, pullback)
        /\ sk' = [sk EXCEPT !.stage = "deeper",
                            !.pullback = pullback,
                            !.strike = suggest_leap_strike(sk.price, pullback, sk.is_spy),
                            !.prev_pullback = sk.pullback,
                            !.prev_strike = sk.strike]

----------------------------------------------------------------------------
(* Specifications *)

Init == MainInit /\ scan = ScanIdle /\ sk = StrikeIdle

Next ==
    \/ ScanSpy
    \/ ScanTop
    \/ FetchConstituents
    \/ ScanSp500
    \/ BuildFrame
    \/ SendEmail

Spec == Init /\ [][Next]_vars

InitScan == MainInit /\ ScanInit /\ sk = StrikeIdle

NextScan == ScanCall /\ UNCHANGED <<mainVars, sk>>

SpecScan == InitScan /\ [][NextScan]_vars

InitStrike == MainInit /\ scan = ScanIdle /\ StrikeInit

NextStrike == DeeperPullback /\ UNCHANGED <<mainVars, scan>>

SpecStrike == InitStrike /\ [][NextStrike]_vars

----------------------------------------------------------------------------
(* Properties of the batch run (specification Spec) *)

Rows(t) == {t[k] : k \in 1..Len(t)}

\* the universe main scans once the constituent list is known
Universe ==
    {spy_symbol} \cup SeqToSet(top_stocks)
        \cup Sp500Remainder(get_sp500_symbols(page).symbols)

\* a fetch that raised, returned None, or left no bar after dropna
BadFetch(f) ==
    \/ f.kind \in {"raise", "none"}
    \/ f.kind = "frame" /\ DropNa(f.bars) = <<>>

\* C1: a symbol whose price-history fetch raises, returns nothing or returns
\* an empty series contributes no alert record, process_symbol does not
\* raise, and main goes on to scan every remaining symbol.
C1_FailureIsolation ==
    \A s \in DOMAIN feed :
        BadFetch(feed[s]) =>
            /\ err # "AttributeError"
            /\ \A r \in Rows(alerts) : r.Symbol # s
            /\ pc \in {"send", "done"} => Universe \subseteq DOMAIN feed

\* C2: whatever way the constituent fetch fails (missing parser, malformed
\* page, network error, missing Symbol column), get_sp500_symbols returns an
\* empty list, the broad-index group is empty, and the run goes on.
C2_ConstituentFailureSoft ==
    page.kind \in PageFailures =>
        /\ err \notin PageFailures
        /\ sp500_symbols = {}
        /\ \A r \in Rows(alerts) : r.Group # "S&P 500"
        /\ "Could not fetch S&P 500 list" \in Rows(out)

\* C3: when EMAIL_USER or EMAIL_PASS is absent the notification is not sent,
\* the operator is told so, and main reaches its completion step without an
\* unhandled error.
C3_MissingConfigCompletes ==
    (env.read /\ ~(env.EMAIL_USER /\ env.EMAIL_PASS)) =>
        /\ pc = "done"
        /\ err = ""
        /\ "Daily pullback scan completed" \in Rows(out)
        /\ "mail to EMAIL_USER" \notin Rows(out)
        /\ "mail to RECEIVER_EMAIL" \notin Rows(out)

\* (Period, Group, Symbol) of a is at most that of b, lexicographically
KeyLeq(a, b) ==
    \/ a.Period < b.Period
    \/ /\ a.Period = b.Period
       /\ \/ StrLess(a.Group, b.Group)
          \/ a.Group = b.Group /\ ~StrLess(b.Symbol, a.Symbol)

\* C4: whenever at least one alert exists, the report table holds the alert
\* records in non-decreasing lexicographic order of (Period, Group, Symbol),
\* whatever the order in which the symbols were scanned.
C4_SortInvariant ==
    (df # <<>> /\ alerts # <<>>) =>
        /\ Len(df) = Len(alerts)
        /\ Rows(df) = Rows(alerts)
        /\ \A k \in 1..(Len(df) - 1) : KeyLeq(df[k], df[k + 1])

\* two symbols of different groups alerted and the scan order was not the
\* sorted order
C4_Witness ==
    /\ pc = "send"
    /\ Len(df) >= 8
    /\ df # alerts
    /\ \E k \in 1..(Len(df) - 1) :
        df[k].Period = df[k + 1].Period /\ df[k].Group # df[k + 1].Group

\* the one group a symbol may be reported under
GroupOf(symbol) ==
    IF symbol = spy_symbol THEN "SPY"
    ELSE IF symbol \in SeqToSet(top_stocks) THEN "Top 15"
    ELSE "S&P 500"

\* C5: no alert record of group "S&P 500" carries a curated symbol or the
\* proxy symbol, whatever the page lists, so that every symbol is reported
\* under one group only.
C5_Exclusion ==
    /\ sp500_symbols \cap (SeqToSet(top_stocks) \cup {spy_symbol}) = {}
    /\ \A k \in 1..Len(alerts) : alerts[k].Group = GroupOf(alerts[k].Symbol)
    /\ pc = "send" => \A k \in 1..Len(df) :
            df[k].Group = "S&P 500" =>
                df[k].Symbol \notin SeqToSet(top_stocks) /\ df[k].Symbol # spy_symbol

\* the page listed BRK.B and SPY, BRK-B alerted under the curated list and
\* another constituent under "S&P 500"
C5_Witness ==
    /\ pc = "done"
    /\ page.kind = "ok"
    /\ {"BRK.B", "SPY"} \subseteq SeqToSet(page.Symbol)
    /\ \E r \in Rows(df) : r.Symbol = "BRK-B" /\ r.Group = "Top 15"
    /\ \E r \in Rows(df) : r.Group = "S&P 500"

Reverse(q) == [k \in 1..Len(q) |-> q[Len(q) + 1 - k]]

\* the symbols of S, greatest first
RECURSIVE Descending(_)
Descending(S) ==
    IF S = {} THEN <<>>
    ELSE LET m == CHOOSE m \in S : \A t \in S \ {m} : StrLess(t, m)
         IN  <<m>> \o Descending(S \ {m})

\* the records of a second run on the same histories that walks the
\* threshold table backwards
RefRows(s, thresholds, group, is_spy) ==
    ProcessSymbolIn(Reverse(PeriodOrder), feed[s], s, thresholds, group, is_spy).alerts

RECURSIVE RefConcat(_, _)
RefConcat(symbols, group) ==
    IF symbols = <<>> THEN <<>>
    ELSE RefRows(Head(symbols), pullback_thresholds_stocks, group, FALSE)
            \o RefConcat(Tail(symbols), group)

\* the table of that second run, which also walks the constituent set in
\* descending order
ReferenceTable ==
    LET rest == Descending(Sp500Remainder(get_sp500_symbols(page).symbols))
        a    == RefRows(spy_symbol, pullback_thresholds_spy, "SPY", TRUE)
                    \o RefConcat(top_stocks, "Top 15")
                    \o RefConcat(rest, "S&P 500")
    IN  CHOOSE t \in sort_values(FrameRows(a)) : TRUE

\* C6: the report table handed to send_email_report is a function of the
\* price histories and the constituent list: it equals the table of a run on
\* the same inputs that iterates the constituent set and the threshold table
\* in another order.
C6_Determinism ==
    pc = "send" => df = ReferenceTable

\* two constituents alerted and were scanned in ascending order, the reverse
\* of the second run's order
C6_Witness ==
    /\ pc = "send"
    /\ \E i \in 1..Len(alerts), j \in 1..Len(alerts) :
        /\ i < j
        /\ alerts[i].Group = "S&P 500" /\ alerts[i].Symbol = "AMD"
        /\ alerts[j].Group = "S&P 500" /\ alerts[j].Symbol = "ZTS"

IsPlaceholder(r) ==
    /\ r.Group = "-"
    /\ r.Symbol = "-"
    /\ r.Payoff = "No alerts today"
    /\ r.CurrentPrice = "-"
    /\ r.PullbackPct = "-"
    /\ r.Period = "-"
    /\ r.Strike = "-"
    /\ r.Expiry = "-"

\* C8: when no symbol produced an alert, the table handed to the renderer is
\* exactly one row, "No alerts today" in the payoff field and "-" elsewhere;
\* when an alert exists, no such row is in the table.
C8_Placeholder ==
    (pc \in {"send", "done"} \/ env.read) =>
        /\ alerts = <<>> => Len(df) = 1 /\ IsPlaceholder(df[1])
        /\ alerts # <<>> => \A k \in 1..Len(df) : ~IsPlaceholder(df[k])

\* the whole universe, constituents included, was scanned without an alert
C8_Witness ==
    /\ pc = "done"
    /\ alerts = <<>>
    /\ sp500_symbols = {}
    /\ "ZTS" \in DOMAIN feed
    /\ df = <<Placeholder>>

----------------------------------------------------------------------------
(* Properties of process_symbol (specification SpecScan) *)

ScanClose == DropNa(scan.fetch.bars)

\* the statement of the rule for one period: the latest pullback is a finite
\* number and is at least the threshold
ShouldAlert(close, period, threshold) ==
    LET n    == Len(close)
        last == close[n]
    IN  IF period = 1
        THEN /\ n >= 2
             /\ close[n - 1] > 0
             /\ (close[n - 1] - last) * 1000 >= threshold * close[n - 1]
        ELSE \E j \in 1..n :
                /\ j > n - period
                /\ \A k \in 1..n : k > n - period => close[k] <= close[j]
                /\ close[j] > 0
                /\ (close[j] - last) * 1000 >= threshold * close[j]

\* C9: for a symbol with a price history, process_symbol emits exactly one
\* record for each period whose latest pullback is finite and at least the
\* threshold, none for any other period, and raises nothing; a series of
\* fewer than 2 bars or a NaN or infinite pullback yields no record.
C9_EmissionRule ==
    (scan.stage = "returned" /\ scan.fetch.kind = "frame") =>
        LET close == ScanClose
            th    == IF scan.is_spy THEN pullback_thresholds_spy
                     ELSE pullback_thresholds_stocks
        IN  /\ ~scan.raised
            /\ Len(close) < 2 => scan.alerts = <<>>
            /\ \A period \in DOMAIN th :
                Cardinality({k \in 1..Len(scan.alerts) :
                                scan.alerts[k].Period = period})
                    = IF Len(close) > 0 /\ ShouldAlert(close, period, th[period])
                      THEN 1 ELSE 0
            /\ \A k \in 1..Len(scan.alerts) :
                /\ scan.alerts[k].Period \in DOMAIN th
                /\ scan.alerts[k].Symbol = scan.symbol
                /\ scan.alerts[k].Group = scan.group

\* a call that emitted for some periods and not for others, one of them
\* skipped for a NaN or infinite pullback (a previous close of zero)
C9_Witness ==
    /\ scan.stage = "returned"
    /\ scan.fetch.kind = "frame"
    /\ Len(ScanClose) >= 2
    /\ ScanClose[Len(ScanClose) - 1] = 0
    /\ Len(scan.alerts) >= 1
    /\ Len(scan.alerts) < 4

\* an equity at price 100 whose 30-day rolling maximum is 130
EquityScenario ==
    /\ scan.stage = "returned"
    /\ scan.fetch.kind = "frame"
    /\ ~scan.is_spy
    /\ Len(ScanClose) > 0
    /\ ScanClose[Len(ScanClose)] = 100000
    /\ \E j \in 1..Len(ScanClose) :
        /\ j > Len(ScanClose) - 30
        /\ ScanClose[j] = 130000
        /\ \A k \in 1..Len(ScanClose) :
            k > Len(ScanClose) - 30 => ScanClose[k] <= 130000

\* C7 as stated: the 30-day alert of the scenario has pullback 0.2308,
\* strike 105.0, expiry 18 months and payoff 35.0 (recovery 0.40).
C7_AsStated ==
    EquityScenario =>
        \E r \in Rows(scan.alerts) :
            /\ r.Period = 30
            /\ r.PullbackPct = 2308
            /\ r.Strike = 1050
            /\ r.Expiry = 18
            /\ r.Payoff = 3500

\* C7 amended: the 30-day alert of the scenario has pullback 0.2308 (at
\* least the 0.13 threshold), strike 110.0 (100 x 1.10), expiry 24 months
\* and, with recovery 0.60, payoff max(0, 100 x 1.6 - 110) = 50.0.
C7_EquityScenario ==
    EquityScenario =>
        /\ recovery_map_stocks[30] = 60
        /\ \E r \in Rows(scan.alerts) :
            /\ r.Period = 30
            /\ r.CurrentPrice = 10000
            /\ r.PullbackPct = 2308
            /\ r.Strike = 1100
            /\ r.Expiry = 24
            /\ r.Payoff = 5000
        /\ Cardinality({k \in 1..Len(scan.alerts) : scan.alerts[k].Period = 30}) = 1

\* the scenario with the peak outside the 15-day window: the 30-day scan
\* alerts and the 15-day scan does not
C7_Witness ==
    /\ EquityScenario
    /\ \E r \in Rows(scan.alerts) : r.Period = 30
    /\ \A r \in Rows(scan.alerts) : r.Period # 15

----------------------------------------------------------------------------
(* Properties of suggest_leap_strike (specification SpecStrike) *)

\* the factor, in hundredths, of the documented regime of a pullback
RegimeFactor(is_spy, pullback) ==
    IF is_spy
    THEN IF pullback[1] * 100 < 5 * pullback[2] THEN 100 ELSE 102
    ELSE IF pullback[1] * 100 < 10 * pullback[2] THEN 100
         ELSE IF pullback[1] * 100 < 20 * pullback[2] THEN 105
         ELSE 110

\* strike (tenths) is price (mills) times factor (hundredths) to the nearest tenth
NearestTenth(strike, price, factor) ==
    /\ 2 * (strike * 10000 - price * factor) <= 10000
    /\ 2 * (price * factor - strike * 10000) <= 10000

\* C10: at a fixed non-negative price the suggested strike does not decrease
\* as the pullback grows, and it is the price times the factor of the
\* pullback's regime (equities 1, 1.05, 1.10 at 0.10 and 0.20; the proxy 1,
\* 1.02 at 0.05), rounded to one decimal place.
C10_StrikeMonotone ==
    sk.stage # "idle" =>
        /\ sk.prev_strike <= sk.strike
        /\ NearestTenth(sk.strike, sk.price, RegimeFactor(sk.is_spy, sk.pullback))

\* an equity strike that moved from the first regime to the third
C10_Witness ==
    /\ sk.stage = "deeper"
    /\ ~sk.is_spy
    /\ sk.price = 100004
    /\ sk.prev_pullback = <<99, 1000>>
    /\ sk.pullback = <<200, 1000>>
    /\ sk.prev_strike = 1000
    /\ sk.strike = 1100

====
